---- MODULE Spec2Model ----
(***************************************************************************)
(* Model of Hy2DL's training-loop glue:                                    *)
(*   - hy2dl/aux_functions/utils.py: class Optimizer and write_report      *)
(*   - hy2dl/datasetzoo/camelsde_caravan.py: UnifiedCAMELSDE_CARAVAN       *)
(* Floats are modelled by positive integers (a learning rate n stands for  *)
(* n * 1e-4); python strings that the code takes apart are tuples of       *)
(* one-character strings.                                                  *)
(***************************************************************************)
EXTENDS Integers, Sequences, FiniteSets, TLC

VARIABLES
    \* ---- Optimizer (utils.py) ----
    model_configuration, \* the dict handed to Optimizer.__init__
    optimizer_arg,       \* the `optimizer` argument of Optimizer.__init__
    pc,                  \* "new" | "built" | "raised"
    exc,                 \* exception that left __init__ ("none" if none)
    self,                \* the Optimizer object
    grad_norm,           \* total norm of the model's gradients
    found,               \* last call of _find_learning_rate: epoch and result
    last,                \* last public method call and what it did
    \* ---- write_report (utils.py) ----
    fs,                  \* file system: path -> NoFile or file content
    fs0,                 \* the file system before the first write_report
    written,             \* path -> texts given to write_report, in call order
    \* ---- UnifiedCAMELSDE_CARAVAN (camelsde_caravan.py) ----
    ts_files,            \* the time-series csv files on disk
    attr_files,          \* the attribute csv files on disk
    dataset,             \* entities_ids and static_input of the dataset object
    read                 \* last _read_data / _read_attributes call and result

optVars == <<model_configuration, optimizer_arg, pc, exc, self, grad_norm, found, last>>
repVars == <<fs, fs0, written>>
datVars == <<ts_files, attr_files, dataset, read>>
vars == <<optVars, repVars, datVars>>

(***************************************************************************)
(* Bounds                                                                  *)
(***************************************************************************)
MaxKey == 2          \* epoch keys of a learning-rate dictionary: 1..MaxKey
MaxEpoch == 3        \* epochs passed to the methods: 1..MaxEpoch
MaxGroups == 2       \* parameter groups of the torch optimizer
MaxSchedEpoch == 2   \* cap on StepLR.last_epoch
MaxGradNorm == 2     \* finite gradient norms: 0..MaxGradNorm
MaxSteps == 2        \* cap on the number of optimizer.step() calls
MaxBatch == 2        \* batch numbers: 1..MaxBatch
MaxWrites == 2       \* write_report calls
MaxTextLen == 1      \* characters of a text given to write_report
MaxDate == 2         \* dates of a time series: 1..MaxDate
MaxEntities == 2     \* length of entities_ids

Range(f) == {f[x] : x \in DOMAIN f}

SetMax(S) == CHOOSE x \in S : \A y \in S : y <= x

(***************************************************************************)
(* Optimizer.__init__                                                      *)
(***************************************************************************)
None == -1           \* python's None where a learning rate is expected
NonFinite == -2      \* a gradient norm that is inf or nan
max_norm == 1        \* clip_grad_norm_(..., max_norm=1, ...)

NoneArg == "<None>"
OptimizerArgs == {NoneArg, "adam", "Adam", "sgd"}

\* str.lower() on the optimizer names above
Lower(s) == IF s = "Adam" THEN "adam" ELSE s

LRFloats == {1, 2}
LRDicts == UNION {[K -> LRFloats] : K \in SUBSET (1..MaxKey)}
EmptyDict == CHOOSE d \in LRDicts : DOMAIN d = {}

\* values of model_configuration["learning_rate"], by python type
LRValues ==
    {[kind |-> "float", f |-> x, d |-> EmptyDict] : x \in LRFloats}
    \cup {[kind |-> "int", f |-> 1, d |-> EmptyDict],
          [kind |-> "str", f |-> 1, d |-> EmptyDict]}
    \cup {[kind |-> "dict", f |-> None, d |-> dd] : dd \in LRDicts}

NoLR == [kind |-> "NoneType", f |-> None, d |-> EmptyDict]

ConfigKeys == {"learning_rate", "adapt_learning_rate_epoch", "adapt_gamma_learning_rate"}

\* model_configuration: the keys present, and the values of those keys
Configurations ==
    {[keys |-> K, learning_rate |-> v, adapt_learning_rate_epoch |-> s]
        : K \in SUBSET ConfigKeys, v \in LRValues, s \in {1, 2}}

\* model_configuration.get("learning_rate")
GetLearningRate(conf) ==
    IF "learning_rate" \in conf.keys THEN conf.learning_rate ELSE NoLR

NoScheduler == [last_epoch |-> 0, step_size |-> 0]

NewObject ==
    [attrs |-> {}, learning_rate |-> NoLR, learning_rate_type |-> "",
     scheduler |-> NoScheduler, param_groups |-> <<>>, steps |-> 0]

\* Optimizer._find_learning_rate (the loop over the keys sorted descending;
\* falling off the loop returns None)
_find_learning_rate(learning_rate, epoch) ==
    LET hit == {k \in DOMAIN learning_rate : epoch >= k}
    IN  IF hit = {} THEN None ELSE learning_rate[SetMax(hit)]

\* lines 25-26: optimizer_class is bound only for None / "adam"
OptimizerClassBound(opt) == opt = NoneArg \/ Lower(opt) = "adam"

\* torch.optim.Adam(params, lr=lr): n parameter groups, all with the default lr
Adam(n, lr) == [i \in 1..n |-> [lr |-> lr, decays |-> 0]]

\* The branch __init__ takes (lines 28-62)
InitBranch(conf) ==
    LET lr == GetLearningRate(conf)
        hasE == "adapt_learning_rate_epoch" \in conf.keys
        hasG == "adapt_gamma_learning_rate" \in conf.keys
    IN  IF lr.kind = "float" /\ ~hasE /\ ~hasG THEN "constant"
        ELSE IF lr.kind = "float" /\ hasE /\ hasG THEN "scheduler"
        ELSE IF lr.kind = "dict" THEN "custom_scheduler"
        ELSE "ValueError"

\* Outcome of Optimizer.__init__: the exception raised ("none" if it returns),
\* the object, and the _find_learning_rate call it made.
InitOutcome(conf, opt, n) ==
    LET lr == GetLearningRate(conf)
        branch == InitBranch(conf)
        noFind == [called |-> FALSE, epoch |-> 0, result |-> None]
        fail(e) == [exc |-> e, obj |-> NewObject, found |-> noFind]
    IN  IF branch = "ValueError" THEN fail("ValueError")
        ELSE IF ~OptimizerClassBound(opt) THEN fail("UnboundLocalError")
        ELSE IF branch = "constant" THEN
            [exc |-> "none", found |-> noFind,
             obj |-> [attrs |-> {"learning_rate", "optimizer", "learning_rate_type"},
                      learning_rate |-> lr, learning_rate_type |-> "constant",
                      scheduler |-> NoScheduler, param_groups |-> Adam(n, lr.f),
                      steps |-> 0]]
        ELSE IF branch = "scheduler" THEN
            [exc |-> "none", found |-> noFind,
             obj |-> [attrs |-> {"learning_rate", "optimizer", "learning_rate_type",
                                 "scheduler"},
                      learning_rate |-> lr, learning_rate_type |-> "scheduler",
                      scheduler |-> [last_epoch |-> 0,
                                     step_size |-> conf.adapt_learning_rate_epoch],
                      param_groups |-> Adam(n, lr.f), steps |-> 0]]
        ELSE
            LET lr1 == _find_learning_rate(lr.d, 1)
                f == [called |-> TRUE, epoch |-> 1, result |-> lr1]
            IN  IF lr1 = None
                THEN \* Adam's `0.0 <= lr` on None
                     [exc |-> "TypeError", obj |-> NewObject, found |-> f]
                ELSE [exc |-> "none", found |-> f,
                      obj |-> [attrs |-> {"learning_rate", "optimizer",
                                          "learning_rate_type"},
                               learning_rate |-> lr,
                               learning_rate_type |-> "custom_scheduler",
                               scheduler |-> NoScheduler,
                               param_groups |-> Adam(n, lr1), steps |-> 0]]

NoCall == [op |-> "none", epoch |-> 0, grad |-> 0,
           raised |-> "none", returned |-> FALSE, before |-> NewObject]

Optimizer_init ==
    /\ pc = "new"
    /\ \E n \in 1..MaxGroups :
        LET out == InitOutcome(model_configuration, optimizer_arg, n)
        IN  /\ exc' = out.exc
            /\ pc' = IF out.exc = "none" THEN "built" ELSE "raised"
            /\ self' = out.obj
            /\ found' = out.found
    /\ last' = [NoCall EXCEPT !.op = "__init__"]
    /\ UNCHANGED <<model_configuration, optimizer_arg, grad_norm>>
    /\ UNCHANGED <<repVars, datVars>>

(***************************************************************************)
(* Optimizer.update_optimizer_lr                                           *)
(***************************************************************************)
\* torch StepLR.step(): last_epoch advances and every group's lr is
\* base_lr * gamma ** (last_epoch // step_size); kept as the exponent.
StepLR_step(s) ==
    LET e == s.scheduler.last_epoch + 1
    IN  [s EXCEPT !.scheduler.last_epoch = e,
                  !.param_groups =
                      [i \in DOMAIN s.param_groups |->
                          [s.param_groups[i] EXCEPT
                              !.decays = e \div s.scheduler.step_size]]]

UpdatedSelfFirstGroupOnly(s, epoch) ==
    IF s.learning_rate_type = "scheduler" THEN StepLR_step(s)
    ELSE IF s.learning_rate_type = "custom_scheduler"
    THEN [s EXCEPT !.param_groups[1].lr =
                       _find_learning_rate(s.learning_rate.d, epoch)]
    ELSE s

\* The object after update_optimizer_lr(epoch) (lines 92-96)
UpdatedSelf(s, epoch) ==
    IF s.learning_rate_type = "scheduler" THEN StepLR_step(s)
    ELSE IF s.learning_rate_type = "custom_scheduler"
    THEN [s EXCEPT !.param_groups =
                       [i \in DOMAIN s.param_groups |->
                           [s.param_groups[i] EXCEPT
                               !.lr = _find_learning_rate(s.learning_rate.d, epoch)]]]
    ELSE s

update_optimizer_lr(epoch) ==
    /\ pc = "built"
    /\ self.scheduler.last_epoch < MaxSchedEpoch
    /\ self' = UpdatedSelf(self, epoch)
    /\ found' = IF self.learning_rate_type = "custom_scheduler"
                THEN [called |-> TRUE, epoch |-> epoch,
                      result |-> _find_learning_rate(self.learning_rate.d, epoch)]
                ELSE found
    /\ last' = [NoCall EXCEPT !.op = "update_optimizer_lr", !.epoch = epoch,
                              !.returned = TRUE, !.before = self]
    /\ UNCHANGED <<model_configuration, optimizer_arg, pc, exc, grad_norm>>
    /\ UNCHANGED <<repVars, datVars>>

(***************************************************************************)
(* Optimizer.clip_grad_and_step                                            *)
(***************************************************************************)
GradNorms == (0..MaxGradNorm) \cup {NonFinite}

\* What the try body (line 106) raises: evaluating self.model needs the
\* attribute; clip_grad_norm_ raises on a non-finite total norm.
TryRaises(s, g) ==
    IF "model" \notin s.attrs THEN "AttributeError"
    ELSE IF g = NonFinite THEN "RuntimeError"
    ELSE "none"

\* clip_grad_norm_: gradients are scaled so that their norm is at most max_norm
Clipped(g) == IF g > max_norm THEN max_norm ELSE g

ClipOutcomeStepAnyway(s, g) ==
    LET r == TryRaises(s, g)
    IN  [raised |-> r, returned |-> TRUE,
         grad |-> IF r = "none" THEN Clipped(g) ELSE g,
         obj |-> [s EXCEPT !.steps = @ + 1]]

\* Outcome of clip_grad_and_step on gradients of norm g (lines 105-116)
ClipOutcome(s, g) ==
    LET r == TryRaises(s, g)
    IN  IF r # "none"
        THEN \* except Exception: print and return
             [raised |-> r, returned |-> TRUE, grad |-> g, obj |-> s]
        ELSE [raised |-> r, returned |-> TRUE, grad |-> Clipped(g),
              obj |-> [s EXCEPT !.steps = @ + 1]]

clip_grad_and_step(epoch, batch) ==
    /\ pc = "built"
    /\ self.steps < MaxSteps
    /\ \E g \in GradNorms :
        LET out == ClipOutcome(self, g)
        IN  /\ self' = out.obj
            /\ grad_norm' = out.grad
            \* epoch and batch are only printed
            /\ last' = [op |-> "clip_grad_and_step", epoch |-> 0,
                        grad |-> g, raised |-> out.raised,
                        returned |-> out.returned, before |-> self]
    /\ UNCHANGED <<model_configuration, optimizer_arg, pc, exc, found>>
    /\ UNCHANGED <<repVars, datVars>>

(***************************************************************************)
(* write_report                                                            *)
(***************************************************************************)
LF == "LF"                       \* the newline character
Chars == {"a", LF}
Paths == {"report_a.txt", "report_b.txt"}

SeqsUpTo(S, n) == UNION {[1..k -> S] : k \in 0..n}
Texts == SeqsUpTo(Chars, MaxTextLen)

NoFile == [exists |-> FALSE, content |-> <<>>]
File(c) == [exists |-> TRUE, content |-> c]

\* os.path.exists(file_path)
Exists(f, file_path) == f[file_path].exists

OpenModeAlwaysW(f, file_path) == "w"

\* lines 184-187: append if the file exists, otherwise make a new file
OpenMode(f, file_path) == IF Exists(f, file_path) THEN "a" ELSE "w"

\* open(file_path, mode): "w" creates or truncates, "a" keeps the content
\* and writes at the end
Open(f, file_path, mode) ==
    IF mode = "w" THEN File(<<>>)
    ELSE IF f[file_path].exists THEN f[file_path] ELSE File(<<>>)

write_report(file_path, text) ==
    /\ Len(written["report_a.txt"]) + Len(written["report_b.txt"]) < MaxWrites
    /\ LET append_write == OpenMode(fs, file_path)
           highscore == Open(fs, file_path, append_write)
       IN  fs' = [fs EXCEPT ![file_path] =
                      File(highscore.content \o text \o <<LF>>)]
    /\ written' = [written EXCEPT ![file_path] = Append(@, text)]
    /\ UNCHANGED fs0
    /\ UNCHANGED <<optVars, datVars>>

(***************************************************************************)
(* Strings and tables of camelsde_caravan.py                               *)
(***************************************************************************)
\* the characters used, in code-point order
Alphabet == <<"1", "2", "D", "E", "_", "a", "c", "d", "e", "l", "m", "s">>
Ord(c) == CHOOSE i \in DOMAIN Alphabet : Alphabet[i] = c

RECURSIVE LexLess(_, _)
LexLess(a, b) ==
    IF b = <<>> THEN FALSE
    ELSE IF a = <<>> THEN TRUE
    ELSE IF Head(a) # Head(b) THEN Ord(Head(a)) < Ord(Head(b))
    ELSE LexLess(Tail(a), Tail(b))

RECURSIVE SortInts(_)
SortInts(S) ==
    IF S = {} THEN <<>>
    ELSE LET m == CHOOSE x \in S : \A y \in S : x <= y
         IN  <<m>> \o SortInts(S \ {m})

RECURSIVE SortIds(_)
SortIds(S) ==
    IF S = {} THEN <<>>
    ELSE LET m == CHOOSE x \in S : \A y \in S \ {x} : LexLess(x, y)
         IN  <<m>> \o SortIds(S \ {m})

camelsde_ == <<"c", "a", "m", "e", "l", "s", "d", "e", "_">>
DE1 == <<"D", "E", "1">>
DE2 == <<"D", "E", "2">>
GaugeIds == {DE1, DE2, camelsde_ \o DE1}

IsPrefix(p, s) == Len(p) <= Len(s) /\ SubSeq(s, 1, Len(p)) = p

\* str.replace(old, ""): every non-overlapping occurrence of old, scanning
\* from the left, is removed
RECURSIVE Replace(_, _)
Replace(s, old) ==
    IF s = <<>> THEN <<>>
    ELSE IF IsPrefix(old, s) THEN Replace(SubSeq(s, Len(old) + 1, Len(s)), old)
    ELSE <<Head(s)>> \o Replace(Tail(s), old)

\* str.split("_")[0]
RECURSIVE SplitFirst(_)
SplitFirst(s) ==
    IF s = <<>> \/ Head(s) = "_" THEN <<>>
    ELSE <<Head(s)>> \o SplitFirst(Tail(s))

\* str.lower()
LowerChar(c) == IF c = "D" THEN "d" ELSE IF c = "E" THEN "e" ELSE c
LowerStr(s) == [i \in DOMAIN s |-> LowerChar(s[i])]

\* UnifiedCAMELSDE_CARAVAN._map_gauge_id
_map_gauge_id(gauge_id) == camelsde_ \o gauge_id

\* A table is [cols: sequence of column names, rows: sequence of
\* [label, vals]]; a cell read from a file is <<dataset, row label, column>>.
NaN == <<"NaN">>
Cell(src, label, col) == <<src, label, col>>
MakeTable(src, cols, labels) ==
    [cols |-> cols,
     rows |-> [i \in DOMAIN labels |->
                 [label |-> labels[i],
                  vals |-> [j \in DOMAIN cols |-> Cell(src, labels[i], cols[j])]]]]

Labels(t) == {t.rows[i].label : i \in DOMAIN t.rows}
RowsWith(t, l) == SelectSeq(t.rows, LAMBDA r : r.label = l)

\* columns of left.join(right, rsuffix=...): lsuffix is "", so a left column
\* keeps its name and an overlapping right column gets the suffix
JoinCols(lc, rc, rsuffix) ==
    lc \o [j \in DOMAIN rc |-> IF rc[j] \in Range(lc) THEN rc[j] \o rsuffix ELSE rc[j]]

\* rows of the outer join for one label: every pairing of the left rows with
\* the right rows of that label, NaN standing for a missing side
JoinRowsFor(left, right, l) ==
    LET nan(t) == <<[label |-> l, vals |-> [j \in DOMAIN t.cols |-> NaN]]>>
        ls == IF RowsWith(left, l) = <<>> THEN nan(left) ELSE RowsWith(left, l)
        rs == IF RowsWith(right, l) = <<>> THEN nan(right) ELSE RowsWith(right, l)
        n == Len(rs)
    IN  [k \in 1..(Len(ls) * n) |->
            [label |-> l,
             vals |-> ls[((k - 1) \div n) + 1].vals \o rs[((k - 1) % n) + 1].vals]]

RECURSIVE JoinRows(_, _, _)
JoinRows(left, right, order) ==
    IF order = <<>> THEN <<>>
    ELSE JoinRowsFor(left, right, Head(order)) \o JoinRows(left, right, Tail(order))

\* DataFrame.join(right, how="outer", rsuffix=rsuffix); order is the sorted
\* union of the two indexes
OuterJoin(left, right, rsuffix, order) ==
    [cols |-> JoinCols(left.cols, right.cols, rsuffix),
     rows |-> JoinRows(left, right, order)]

(***************************************************************************)
(* UnifiedCAMELSDE_CARAVAN._read_data                                      *)
(***************************************************************************)
EmptyTable == [cols |-> <<>>, rows |-> <<>>]
NoRead == [op |-> "none", catch_id |-> <<>>, error |-> "none", result |-> EmptyTable]

\* path_caravan / "timeseries" / "csv" / dir / (stem + ".csv")
CaravanPath(dir, stem) == [dir |-> dir, stem |-> stem]

ReadDataInner(files, catch_id) ==
    LET caravan_id == _map_gauge_id(catch_id)
        camelsde_ts == files.camelsde[catch_id]
        caravan_filepath == CaravanPath(LowerStr(SplitFirst(caravan_id)), caravan_id)
    IN  IF caravan_filepath \in DOMAIN files.caravan
        THEN LET caravan_ts == files.caravan[caravan_filepath]
             IN  OuterJoin(camelsde_ts, caravan_ts, "_caravan",
                           SortInts(Labels(camelsde_ts) \cap Labels(caravan_ts)))
        ELSE camelsde_ts

\* The table _read_data(catch_id) returns (lines 108-124)
ReadData(files, catch_id) ==
    LET caravan_id == _map_gauge_id(catch_id)
        camelsde_ts == files.camelsde[catch_id]
        subdataset_name == LowerStr(SplitFirst(caravan_id))
        caravan_filepath == CaravanPath(subdataset_name, caravan_id)
    IN  IF caravan_filepath \in DOMAIN files.caravan
        THEN LET caravan_ts == files.caravan[caravan_filepath]
             IN  OuterJoin(camelsde_ts, caravan_ts, "_caravan",
                           SortInts(Labels(camelsde_ts) \cup Labels(caravan_ts)))
        ELSE camelsde_ts

_read_data(catch_id) ==
    /\ read' = [op |-> "_read_data", catch_id |-> catch_id, error |-> "none",
                result |-> ReadData(ts_files, catch_id)]
    /\ UNCHANGED <<ts_files, attr_files, dataset>>
    /\ UNCHANGED <<optVars, repVars>>

(***************************************************************************)
(* UnifiedCAMELSDE_CARAVAN._read_attributes                                *)
(***************************************************************************)
\* caravan_attrs.index.str.replace("camelsde_", "") (line 99)
RenameIndex(t) ==
    [cols |-> t.cols,
     rows |-> [i \in DOMAIN t.rows |->
                 [label |-> Replace(t.rows[i].label, camelsde_),
                  vals |-> t.rows[i].vals]]]

RECURSIVE LocRows(_, _)
LocRows(t, ids) ==
    IF ids = <<>> THEN <<>>
    ELSE RowsWith(t, Head(ids)) \o LocRows(t, Tail(ids))

\* DataFrame.loc[ids, cols]: the rows labelled by each id, in the order of
\* ids, and the columns cols; a label or column that is absent is a KeyError
Loc(t, ids, cols) ==
    IF \/ \E i \in DOMAIN ids : ids[i] \notin Labels(t)
       \/ \E j \in DOMAIN cols : cols[j] \notin Range(t.cols)
    THEN [error |-> "KeyError", result |-> EmptyTable]
    ELSE LET pos(c) == CHOOSE j \in DOMAIN t.cols : t.cols[j] = c
             picked == LocRows(t, ids)
         IN  [error |-> "none",
              result |-> [cols |-> cols,
                          rows |-> [i \in DOMAIN picked |->
                                      [label |-> picked[i].label,
                                       vals |-> [j \in DOMAIN cols |->
                                                   picked[i].vals[pos(cols[j])]]]]]]

\* Outcome of _read_attributes (lines 63-104); the attribute columns are
\* numeric, so the categorical encoding leaves them alone
ReadAttributes(files, ds) ==
    LET camelsde_attrs == files.camelsde
        caravan_attrs == RenameIndex(files.caravan)
        merged_attrs == OuterJoin(camelsde_attrs, caravan_attrs, "_caravan",
                            SortIds(Labels(camelsde_attrs) \cup Labels(caravan_attrs)))
    IN  Loc(merged_attrs, ds.entities_ids, ds.static_input)

_read_attributes ==
    /\ LET out == ReadAttributes(attr_files, dataset)
       IN  read' = [op |-> "_read_attributes", catch_id |-> <<>>,
                    error |-> out.error, result |-> out.result]
    /\ UNCHANGED <<ts_files, attr_files, dataset>>
    /\ UNCHANGED <<optVars, repVars>>

(***************************************************************************)
(* Initial states and specifications                                       *)
(***************************************************************************)
NoFind == [called |-> FALSE, epoch |-> 0, result |-> None]

OptIdle ==
    /\ model_configuration = [keys |-> {}, learning_rate |-> NoLR,
                              adapt_learning_rate_epoch |-> 1]
    /\ optimizer_arg = NoneArg
    /\ pc = "new" /\ exc = "none" /\ self = NewObject
    /\ grad_norm = 0 /\ found = NoFind /\ last = NoCall

RepIdle ==
    /\ fs = [p \in Paths |-> NoFile]
    /\ fs0 = fs
    /\ written = [p \in Paths |-> <<>>]

NoDataset == [entities_ids |-> <<>>, static_input |-> <<>>]

DatIdle ==
    /\ ts_files = [camelsde |-> <<>>, caravan |-> <<>>]
    /\ attr_files = [camelsde |-> EmptyTable, caravan |-> EmptyTable]
    /\ dataset = NoDataset
    /\ read = NoRead

\* ---- the Optimizer ----
Init ==
    /\ model_configuration \in Configurations
    /\ optimizer_arg \in OptimizerArgs
    /\ pc = "new" /\ exc = "none" /\ self = NewObject
    /\ grad_norm = 0 /\ found = NoFind /\ last = NoCall
    /\ RepIdle /\ DatIdle

Next ==
    \/ Optimizer_init
    \/ \E epoch \in 1..MaxEpoch : update_optimizer_lr(epoch)
    \/ \E epoch \in 1..MaxEpoch, batch \in 1..MaxBatch : clip_grad_and_step(epoch, batch)

Spec == Init /\ [][Next]_vars

\* ---- write_report ----
InitialContents == {NoFile, File(<<>>), File(<<"a">>)}

InitReport ==
    /\ fs \in [Paths -> InitialContents]
    /\ fs0 = fs
    /\ written = [p \in Paths |-> <<>>]
    /\ OptIdle /\ DatIdle

NextReport == \E file_path \in Paths, text \in Texts : write_report(file_path, text)

SpecReport == InitReport /\ [][NextReport]_vars

\* ---- _read_data ----
CamelsdeTsCols == {<<"q">>, <<"q", "p">>}
CaravanTsCols == {<<"q">>, <<"t">>, <<"t", "q">>}
DateSets == SUBSET (1..MaxDate)
camelsde == <<"c", "a", "m", "e", "l", "s", "d", "e">>

InitTs ==
    /\ \E lc \in CamelsdeTsCols, rc \in CaravanTsCols, ld \in DateSets, rd \in DateSets,
          present \in SUBSET GaugeIds :
        ts_files =
            [camelsde |-> [g \in GaugeIds |-> MakeTable(<<"camelsde", g>>, lc, SortInts(ld))],
             caravan |-> [p \in {CaravanPath(camelsde, camelsde_ \o g) : g \in present} |->
                            MakeTable(<<"caravan", p.stem>>, rc, SortInts(rd))]]
    /\ attr_files = [camelsde |-> EmptyTable, caravan |-> EmptyTable]
    /\ dataset = NoDataset
    /\ read = NoRead
    /\ OptIdle /\ RepIdle

NextTs == \E catch_id \in GaugeIds : _read_data(catch_id)

SpecTs == InitTs /\ [][NextTs]_vars

\* ---- _read_attributes ----
CamelsdeAttrCols == <<"area", "elev">>
CaravanAttrCols == <<"area", "p_mean">>
StaticInputs == {<<"area">>, <<"p_mean", "area_caravan">>, <<"elev", "p_mean">>}
camels_1 == <<"c", "a", "m", "e", "l", "s", "_", "1">>
CaravanIds == {_map_gauge_id(g) : g \in GaugeIds} \cup {camels_1}

InitAttrs ==
    /\ \E G \in SUBSET GaugeIds \ {{}}, C \in SUBSET CaravanIds :
        /\ attr_files =
              [camelsde |-> MakeTable("camelsde", CamelsdeAttrCols, SortIds(G)),
               caravan |-> MakeTable("caravan", CaravanAttrCols, SortIds(C))]
        /\ \E n \in 1..MaxEntities, si \in StaticInputs :
              \E ids \in [1..n -> G] :
                  dataset = [entities_ids |-> ids, static_input |-> si]
    /\ ts_files = [camelsde |-> <<>>, caravan |-> <<>>]
    /\ read = NoRead
    /\ OptIdle /\ RepIdle

NextAttrs == _read_attributes

SpecAttrs == InitAttrs /\ [][NextAttrs]_vars

(***************************************************************************)
(* Properties                                                              *)
(***************************************************************************)

\* C1: every clip_grad_and_step call made while the gradients are finite
\* clips them to norm 1 and performs exactly one optimizer.step(); the step
\* is skipped only when the gradients are non-finite.
C1_FiniteGradientsClipAndStep ==
    last.op = "clip_grad_and_step" =>
        IF last.grad # NonFinite
        THEN /\ last.raised = "none"
             /\ grad_norm <= max_norm
             /\ self.steps = last.before.steps + 1
        ELSE self.steps = last.before.steps

\* C2: when the try body of clip_grad_and_step raises, the call returns
\* normally, optimizer.step() is not called, and the learning rate, the
\* learning_rate_type and the scheduler state are unchanged.
C2_RaiseSkipsStepOnly ==
    (last.op = "clip_grad_and_step" /\ last.raised # "none") =>
        /\ last.returned
        /\ self.steps = last.before.steps
        /\ self.param_groups = last.before.param_groups
        /\ self.learning_rate = last.before.learning_rate
        /\ self.learning_rate_type = last.before.learning_rate_type
        /\ self.scheduler = last.before.scheduler

C2_Witness ==
    /\ last.op = "clip_grad_and_step" /\ last.raised # "none"
    /\ self.learning_rate_type = "scheduler"
    /\ self.scheduler.last_epoch > 0
    /\ self.param_groups[1].decays > 0

\* C3: constructing an Optimizer ends in exactly one of: "constant" (float
\* learning rate, neither scheduler key), "scheduler" (float, both keys),
\* "custom_scheduler" (dictionary), or a ValueError in every other case; no
\* other exception and no other mode.
C3_FourOutcomes ==
    pc # "new" =>
        LET lr == GetLearningRate(model_configuration)
            hasE == "adapt_learning_rate_epoch" \in model_configuration.keys
            hasG == "adapt_gamma_learning_rate" \in model_configuration.keys
            built(type) == pc = "built" /\ exc = "none"
                           /\ self.learning_rate_type = type
        IN  IF lr.kind = "float" /\ ~hasE /\ ~hasG THEN built("constant")
            ELSE IF lr.kind = "float" /\ hasE /\ hasG THEN built("scheduler")
            ELSE IF lr.kind = "dict" THEN built("custom_scheduler")
            ELSE pc = "raised" /\ exc = "ValueError"

\* C4: for a non-empty learning-rate dictionary and an epoch >= 1,
\* _find_learning_rate(epoch) returns the value stored at the greatest key
\* <= epoch, a value of the dictionary; so does the call made at construction.
C4_FindReturnsDictValue ==
    LET d == model_configuration.learning_rate.d
    IN  (found.called /\ found.epoch >= 1 /\ DOMAIN d # {}) =>
            /\ found.result \in Range(d)
            /\ \E k \in DOMAIN d :
                  /\ k <= found.epoch
                  /\ \A j \in DOMAIN d : j <= found.epoch => j <= k
                  /\ found.result = d[k]

\* C8: in custom_scheduler mode, after update_optimizer_lr(epoch) every
\* parameter group has lr = _find_learning_rate(epoch): the learning rate is
\* a function of the dictionary and the last call's epoch alone.
C8_UpdateSetsEveryGroup ==
    (last.op = "update_optimizer_lr"
     /\ self.learning_rate_type = "custom_scheduler") =>
        \A i \in DOMAIN self.param_groups :
            self.param_groups[i].lr =
                _find_learning_rate(self.learning_rate.d, last.epoch)

C8_Witness ==
    /\ last.op = "update_optimizer_lr"
    /\ self.learning_rate_type = "custom_scheduler"
    /\ Len(self.param_groups) >= 2
    /\ last.before.param_groups # self.param_groups
    /\ last.before.param_groups[1].lr # _find_learning_rate(self.learning_rate.d, 1)

RECURSIVE Lines(_)
Lines(texts) ==
    IF texts = <<>> THEN <<>>
    ELSE Head(texts) \o <<LF>> \o Lines(Tail(texts))

\* C5: after any sequence of write_report calls on a path, the file holds
\* what it held before the first call followed by each text in call order,
\* each followed by one newline; a missing file is created, an existing one
\* is appended to.
C5_ReportAppends ==
    \A p \in Paths :
        IF written[p] = <<>> THEN fs[p] = fs0[p]
        ELSE fs[p] = File(fs0[p].content \o Lines(written[p]))

C5_Witness ==
    \E p \in Paths :
        /\ fs0[p].exists /\ fs0[p].content # <<>>
        /\ Len(written[p]) >= 2

RowOf(t, l) == CHOOSE r \in Range(t.rows) : r.label = l

\* C6: _read_data(catch_id) returns the CAMELS-DE table if the CARAVAN file
\* timeseries/csv/camelsde/camelsde_<catch_id>.csv is missing, and otherwise
\* the outer join on date: one row per date of either table, the CAMELS-DE
\* columns with their names and values, the CARAVAN columns after them, a
\* colliding CARAVAN name with the suffix "_caravan".
C6_ReadDataOuterJoin ==
    read.op = "_read_data" =>
        LET L == ts_files.camelsde[read.catch_id]
            P == CaravanPath(camelsde, camelsde_ \o read.catch_id)
            res == read.result
            nl == Len(L.cols)
            nans(n) == [j \in 1..n |-> NaN]
        IN  IF P \notin DOMAIN ts_files.caravan THEN res = L
            ELSE LET R == ts_files.caravan[P]
                 IN  /\ Labels(res) = Labels(L) \cup Labels(R)
                     /\ Len(res.rows) = Cardinality(Labels(res))
                     /\ Len(res.cols) = nl + Len(R.cols)
                     /\ SubSeq(res.cols, 1, nl) = L.cols
                     /\ \A j \in DOMAIN R.cols :
                           res.cols[nl + j] =
                               IF R.cols[j] \in Range(L.cols)
                               THEN R.cols[j] \o "_caravan" ELSE R.cols[j]
                     /\ \A i \in DOMAIN res.rows :
                           LET d == res.rows[i].label
                               v == res.rows[i].vals
                           IN  /\ SubSeq(v, 1, nl) =
                                     IF d \in Labels(L) THEN RowOf(L, d).vals
                                     ELSE nans(nl)
                               /\ SubSeq(v, nl + 1, Len(v)) =
                                     IF d \in Labels(R) THEN RowOf(R, d).vals
                                     ELSE nans(Len(R.cols))

C6_Witness ==
    /\ read.op = "_read_data"
    /\ CaravanPath(camelsde, camelsde_ \o read.catch_id) \in DOMAIN ts_files.caravan
    /\ "q_caravan" \in Range(read.result.cols)
    /\ \E i, k \in DOMAIN read.result.rows :
          /\ read.result.rows[i].vals[1] = NaN
          /\ read.result.rows[k].vals[Len(read.result.cols)] = NaN

\* a CARAVAN attribute column under its name in the CARAVAN files
CaravanColumn(c) == IF c = "area_caravan" THEN "area" ELSE c

\* C7: stripping the prefix inverts _map_gauge_id for every CAMELS-DE gauge
\* id, and _read_attributes returns exactly one row per id of entities_ids,
\* in that order, with exactly the columns of static_input, the CARAVAN row
\* _map_gauge_id(g) joined onto the CAMELS-DE row g.
C7_AttributesAligned ==
    read.op = "_read_attributes" =>
        /\ \A g \in Labels(attr_files.camelsde) :
              Replace(_map_gauge_id(g), camelsde_) = g
        /\ read.error = "none"
        /\ read.result.cols = dataset.static_input
        /\ Len(read.result.rows) = Len(dataset.entities_ids)
        /\ \A i \in DOMAIN read.result.rows :
              LET g == dataset.entities_ids[i]
                  row == read.result.rows[i]
              IN  /\ row.label = g
                  /\ \A j \in DOMAIN dataset.static_input :
                        LET c == dataset.static_input[j]
                        IN  row.vals[j] =
                              IF c \in Range(CamelsdeAttrCols)
                              THEN Cell("camelsde", g, c)
                              ELSE IF _map_gauge_id(g) \in Labels(attr_files.caravan)
                              THEN Cell("caravan", _map_gauge_id(g), CaravanColumn(c))
                              ELSE NaN

====
